---- MODULE Spec2Model ----
(***************************************************************************)
(* The two experiment drivers of rpizziol/autopilot-analysis:              *)
(*   driver = "scale" : src/experiments/run_experiment.py     (main)       *)
(*   driver = "hpa"   : src/experiments/run_hpa_experiment.py (main)       *)
(* Each runs its phases (deploy, wait, scaling ramp or load test), records *)
(* the experiment window in a times file, and exports the metrics queried  *)
(* from Prometheus to a CSV aligned on a regular timestamp grid.           *)
(*                                                                         *)
(* Wall-clock instants are Python floats; they are modelled as records     *)
(* [s |-> whole seconds, half |-> whether a fraction follows], so that     *)
(* int(x) (truncation) is not the identity.  Strings that the code parses  *)
(* (the sampling interval) are sequences of one-character strings.         *)
(***************************************************************************)
EXTENDS Integers, Sequences, FiniteSets, TLC

VARIABLES
    driver,           \* which script runs
    args,             \* parsed command line (argparse namespace)
    files,            \* the resource files that exist on disk
    prom,             \* what the Prometheus backend answers to each query
    pc,               \* position of main()
    ramp,             \* "up" / "down": which scaling loop is running ("none" outside)
    idx,              \* loop position: ramp target, manifest, poll or delete number
    issued,           \* every external command issued so far, in order
    failed,           \* a forward-phase step has failed
    pending_exit,     \* "none", "return" (return 1), "sys_exit" (SystemExit raised)
                      \* or "value_error" (ValueError raised inside finally)
    start_time_unix,  \* window start
    end_time_unix,    \* window end: Nothing until assigned, then Some(instant)
    end_assignments,  \* number of times end_time_unix was assigned
    times_file,       \* contents of data/<experiment>_times.txt: sequence of lines
    csv_file,         \* data/<experiment>_export.csv: Nothing if never opened
    closest_log,      \* per grid row, the closest_ts the export selected
    export_reached,   \* the metrics export step was entered
    exit_status,      \* process exit status: Nothing while running
    prior_times_file  \* what the times file held when the run began

vars == <<driver, args, files, prom, pc, ramp, idx, issued, failed, pending_exit,
          start_time_unix, end_time_unix, end_assignments, times_file, csv_file,
          closest_log, export_reached, exit_status, prior_times_file>>

\* Python's None among strings (a missing cell value, a null command result)
None == "None"

\* An optional integer or record is a sequence: <<>> for None, <<x>> for x
Nothing == <<>>

Some(x) == <<x>>

----------------------------------------------------------------------------
(* Bounds of the model *)

MaxMaxReplicas == 6     \* --max_replicas ranges over 0..MaxMaxReplicas
MaxStepSize == 3        \* --step_size ranges over 1..MaxStepSize
MaxElapsed == 2         \* a run lasts at most this many whole seconds
MaxWindow == 3          \* windows of the export inputs span at most this many seconds
MaxSamples == 2         \* samples per series in the export inputs
MaxSeries == 3          \* series per node-inventory answer in the export inputs
Epoch == 1000           \* the second at which modelled runs start

----------------------------------------------------------------------------
(* Python built-ins used by the code *)

\* int(x) of a non-negative float: truncation
PyInt(x) == x.s

Float(n, h) == [s |-> n, half |-> h]

FloatLE(a, b) == a.s < b.s \/ (a.s = b.s /\ (a.half => b.half))

Abs(x) == IF x < 0 THEN -x ELSE x

\* list(range(a, b, st)) for st # 0
RECURSIVE PyRange(_, _, _)
PyRange(a, b, st) ==
    IF (st > 0 /\ a >= b) \/ (st < 0 /\ a <= b) \/ st = 0 THEN <<>>
    ELSE <<a>> \o PyRange(a + st, b, st)

\* sorted(set) ascending
RECURSIVE Sorted(_)
Sorted(S) ==
    IF S = {} THEN <<>>
    ELSE LET m == CHOOSE x \in S : \A y \in S : x <= y
         IN <<m>> \o Sorted(S \ {m})

Range(f) == {f[i] : i \in DOMAIN f}

EmptyDict == [k \in {} |-> k]

\* d.get(k, dflt)
Get(d, k, dflt) == IF k \in DOMAIN d THEN d[k] ELSE dflt

----------------------------------------------------------------------------
(* Command Executor *)

Outcomes == {"ok", "nonzero", "timeout"}

\* (mutation) the failure is logged and swallowed instead of re-raised
run_kubectl_command_swallowing(outcome) ==
    IF outcome = "ok" THEN "result" ELSE None

\* run_experiment.py: every failure is re-raised
run_kubectl_command(outcome) ==
    IF outcome = "ok" THEN "result" ELSE "raise"

\* (mutation) every failure is logged and swallowed, can_fail or not
run_kubectl_command_hpa_swallowing(outcome, can_fail) ==
    IF outcome = "ok" THEN "result" ELSE None

\* (mutation) can_fail is ignored: every failure is re-raised
run_kubectl_command_hpa_always_raising(outcome, can_fail) ==
    IF outcome = "ok" THEN "result" ELSE "raise"

\* (mutation) can_fail downgrades a non-zero exit only; a timeout is re-raised
run_kubectl_command_hpa_timeout_raises(outcome, can_fail) ==
    IF outcome = "ok" THEN "result"
    ELSE IF ~can_fail \/ outcome = "timeout" THEN "raise"
    ELSE None

\* run_hpa_experiment.py: failures are re-raised unless can_fail
run_kubectl_command_hpa(outcome, can_fail) ==
    IF outcome = "ok" THEN "result"
    ELSE IF ~can_fail THEN "raise"
    ELSE None

\* one entry of the log of external commands: what was run, how it was invoked
\* ("normal" raises on failure, "best_effort" is can_fail=True, "direct" goes
\* around run_kubectl_command), how the process ended and what the caller got
Cmd(op, arg, mode, outcome, result) ==
    [op |-> op, arg |-> arg, mode |-> mode, outcome |-> outcome, result |-> result]

ForwardOps == {"apply", "rollout", "scale", "locust"}

ForwardCount == Cardinality({i \in DOMAIN issued : issued[i].op \in ForwardOps})

ScaleTargets == SelectSeq(issued, LAMBDA c : c.op = "scale")

----------------------------------------------------------------------------
(* Time Window Recorder: the times file is a sequence of KEY=VALUE lines *)

\* f"{x}" of a float and of an ISO timestamp, as written to the times file
FormatFloat(x) == <<"float", x>>

IsoFormat(x) == <<"iso", x>>

\* float(text): the inverse of FormatFloat; Nothing stands for ValueError
ParseFloat(text) == IF text[1] = "float" THEN Some(text[2]) ELSE Nothing

Line(k, v) == [key |-> k, value |-> v]

\* (mutation) the START lines are appended, mode "a", instead of written with "w"
WriteStartRecordAppending(contents, t) ==
    contents \o <<Line("START_TIME_ISO", IsoFormat(t)), Line("START_TIME_UNIX", FormatFloat(t))>>

\* run_experiment.py: open(times_file, "w") and the two START lines
WriteStartRecord(contents, t) ==
    <<Line("START_TIME_ISO", IsoFormat(t)), Line("START_TIME_UNIX", FormatFloat(t))>>

\* (mutation) the END lines are written with mode "w" instead of appended
AppendEndRecordTruncating(contents, t) ==
    <<Line("END_TIME_ISO", IsoFormat(t)), Line("END_TIME_UNIX", FormatFloat(t))>>

\* run_experiment.py: open(times_file, "a") and the two END lines
AppendEndRecord(contents, t) ==
    contents \o <<Line("END_TIME_ISO", IsoFormat(t)), Line("END_TIME_UNIX", FormatFloat(t))>>

\* run_hpa_experiment.py: open(times_file, "w") and both UNIX lines
WriteTimesRecord(contents, t0, t1) ==
    <<Line("START_TIME_UNIX", FormatFloat(t0)), Line("END_TIME_UNIX", FormatFloat(t1))>>

CountKey(contents, k) == Cardinality({i \in DOMAIN contents : contents[i].key = k})

\* datetime.now() in the finally block: some instant not before the start
EndInstants(t0) ==
    {x \in {Float(n, h) : n \in t0.s .. t0.s + MaxElapsed, h \in BOOLEAN} : FloatLE(t0, x)}

----------------------------------------------------------------------------
(* Scaling Plan of run_experiment.py *)

\* for replicas in range(2, args.max_replicas + 1, args.step_size)
ScaleUpPlan(a) == PyRange(2, a.max_replicas + 1, a.step_size)

\* (mutation) the descent starts at max_replicas instead of one step below it
ScaleDownPlanFromMax(a) == PyRange(a.max_replicas, 1, -a.step_size)

\* for replicas in range(args.max_replicas - args.step_size, 1, -args.step_size)
ScaleDownPlan(a) == PyRange(a.max_replicas - a.step_size, 1, -a.step_size)

CurrentPlan == IF ramp = "up" THEN ScaleUpPlan(args) ELSE ScaleDownPlan(args)

----------------------------------------------------------------------------
(* Phase Driver of run_experiment.py *)

DriverUnchanged ==
    UNCHANGED <<driver, args, files, prom, start_time_unix, prior_times_file>>

ExportUnchanged == UNCHANGED <<csv_file, closest_log, export_reached>>

\* an exception or return leaves the try block: control goes to finally
ToFinally(exit) ==
    /\ pc' = "finally"
    /\ pending_exit' = exit
    /\ ramp' = "none"
    /\ idx' = 0

\* 1. Start time recording
RecordStart ==
    /\ driver = "scale"
    /\ pc = "record_start"
    /\ times_file' = WriteStartRecord(times_file, start_time_unix)
    /\ pc' = "deploy"
    /\ UNCHANGED <<ramp, idx, issued, failed, pending_exit, end_time_unix,
                   end_assignments, exit_status>>
    /\ DriverUnchanged /\ ExportUnchanged

\* 2. Deploy the application (existence check, then kubectl apply)
ApplyDeployment ==
    /\ driver = "scale"
    /\ pc = "deploy"
    /\ IF "deployment" \notin files
       THEN /\ ToFinally("return")
            /\ failed' = TRUE
            /\ UNCHANGED issued
       ELSE \E outcome \in Outcomes :
            /\ issued' = Append(issued, Cmd("apply", "deployment", "normal", outcome,
                                          run_kubectl_command(outcome)))
            /\ failed' = (failed \/ outcome # "ok")
            /\ IF run_kubectl_command(outcome) = "raise"
               THEN ToFinally("none")
               ELSE /\ pc' = "wait_ready"
                    /\ UNCHANGED <<pending_exit, ramp, idx>>
    /\ UNCHANGED <<end_time_unix, end_assignments, times_file, exit_status>>
    /\ DriverUnchanged /\ ExportUnchanged

\* where main() goes after the loop body at position i of the running ramp
AfterRampStep(r, i) ==
    IF r = "none" /\ Len(ScaleUpPlan(args)) > 0
    THEN /\ pc' = "scale" /\ ramp' = "up" /\ idx' = 1
    ELSE IF r = "up" /\ i < Len(ScaleUpPlan(args))
    THEN /\ pc' = "scale" /\ ramp' = "up" /\ idx' = i + 1
    ELSE IF r \in {"none", "up"} /\ Len(ScaleDownPlan(args)) > 0
    THEN /\ pc' = "scale" /\ ramp' = "down" /\ idx' = 1
    ELSE IF r = "down" /\ i < Len(ScaleDownPlan(args))
    THEN /\ pc' = "scale" /\ ramp' = "down" /\ idx' = i + 1
    ELSE /\ pc' = "finally" /\ ramp' = "none" /\ idx' = 0

\* kubectl rollout status after the apply
WaitReady ==
    /\ driver = "scale"
    /\ pc = "wait_ready"
    /\ \E outcome \in Outcomes :
        /\ issued' = Append(issued, Cmd("rollout", 0, "normal", outcome,
                                      run_kubectl_command(outcome)))
        /\ failed' = (failed \/ outcome # "ok")
        /\ IF run_kubectl_command(outcome) = "raise"
           THEN ToFinally("none")
           ELSE AfterRampStep("none", 0) /\ UNCHANGED pending_exit
    /\ UNCHANGED <<end_time_unix, end_assignments, times_file, exit_status>>
    /\ DriverUnchanged /\ ExportUnchanged

\* 3. kubectl scale --replicas=<target>
ScaleTo ==
    /\ driver = "scale"
    /\ pc = "scale"
    /\ \E outcome \in Outcomes :
        /\ issued' = Append(issued, Cmd("scale", CurrentPlan[idx], "normal", outcome,
                                      run_kubectl_command(outcome)))
        /\ failed' = (failed \/ outcome # "ok")
        /\ IF run_kubectl_command(outcome) = "raise"
           THEN ToFinally("none")
           ELSE /\ pc' = "scale_wait"
                /\ UNCHANGED <<pending_exit, ramp, idx>>
    /\ UNCHANGED <<end_time_unix, end_assignments, times_file, exit_status>>
    /\ DriverUnchanged /\ ExportUnchanged

\* kubectl rollout status for the target, then the dwell sleep
ScaleWait ==
    /\ driver = "scale"
    /\ pc = "scale_wait"
    /\ \E outcome \in Outcomes :
        /\ issued' = Append(issued, Cmd("rollout", CurrentPlan[idx], "normal", outcome,
                                      run_kubectl_command(outcome)))
        /\ failed' = (failed \/ outcome # "ok")
        /\ IF run_kubectl_command(outcome) = "raise"
           THEN ToFinally("none")
           ELSE AfterRampStep(ramp, idx) /\ UNCHANGED pending_exit
    /\ UNCHANGED <<end_time_unix, end_assignments, times_file, exit_status>>
    /\ DriverUnchanged /\ ExportUnchanged

\* 4. End time recording (finally); a pending return 1 then leaves main()
RecordEnd ==
    /\ driver = "scale"
    /\ pc = "finally"
    /\ \E t \in EndInstants(start_time_unix) :
        /\ end_time_unix' = Some(t)
        /\ times_file' = AppendEndRecord(times_file, t)
    /\ end_assignments' = end_assignments + 1
    /\ IF pending_exit = "return"
       THEN pc' = "done" /\ exit_status' = Some(0)
       ELSE pc' = "export" /\ UNCHANGED exit_status
    /\ UNCHANGED <<ramp, idx, issued, failed, pending_exit>>
    /\ DriverUnchanged /\ ExportUnchanged

----------------------------------------------------------------------------
(* Phase Driver of run_hpa_experiment.py *)

PollLimit == 30

HpaManifests == <<"deployment", "service", "hpa">>

HpaDeletes == <<"hpa", "service", "deployment">>

\* ip_process.stdout.strip().replace("'", "")
StripQuotes(stdout) == SelectSeq(stdout, LAMBDA c : c # "'")

\* what kubectl get service -o=jsonpath='{...ip}' can print
IpStdouts == {<<>>, <<"'", "'">>, <<"'", "10.0.0.7", "'">>}

\* 1. Deploy all resources: existence check and kubectl apply, one manifest per step
ApplyManifest ==
    /\ driver = "hpa"
    /\ pc = "apply"
    /\ IF HpaManifests[idx] \notin files
       THEN /\ ToFinally("sys_exit")
            /\ failed' = TRUE
            /\ UNCHANGED issued
       ELSE \E outcome \in Outcomes :
            /\ issued' = Append(issued, Cmd("apply", HpaManifests[idx], "normal", outcome,
                                          run_kubectl_command_hpa(outcome, FALSE)))
            /\ failed' = (failed \/ outcome # "ok")
            /\ IF run_kubectl_command_hpa(outcome, FALSE) = "raise"
               THEN ToFinally("none")
               ELSE /\ IF idx < Len(HpaManifests)
                       THEN pc' = "apply" /\ idx' = idx + 1
                       ELSE pc' = "poll_ip" /\ idx' = 0
                    /\ UNCHANGED <<pending_exit, ramp>>
    /\ UNCHANGED <<end_time_unix, end_assignments, times_file, exit_status>>
    /\ DriverUnchanged /\ ExportUnchanged

\* 2. One iteration of the external-IP loop; idx counts the polls already made.
\* subprocess.run is called without check, so the exit status is not looked at.
PollServiceIp ==
    /\ driver = "hpa"
    /\ pc = "poll_ip"
    /\ \E stdout \in IpStdouts :
        /\ issued' = Append(issued, Cmd("get_service", idx + 1, "direct", "ok",
                                      IF StripQuotes(stdout) # <<>>
                                      THEN "address" ELSE "empty"))
        /\ IF StripQuotes(stdout) # <<>>
           THEN /\ pc' = "locust" /\ idx' = 0
                /\ UNCHANGED <<failed, pending_exit, ramp>>
           ELSE IF idx + 1 < PollLimit
           THEN /\ pc' = "poll_ip" /\ idx' = idx + 1
                /\ UNCHANGED <<failed, pending_exit, ramp>>
           ELSE /\ ToFinally("none")      \* raise Exception("Service IP not found")
                /\ failed' = TRUE
    /\ UNCHANGED <<end_time_unix, end_assignments, times_file, exit_status>>
    /\ DriverUnchanged /\ ExportUnchanged

\* 3. Start Locust: locustfile.py check, then subprocess.Popen
LaunchLocust ==
    /\ driver = "hpa"
    /\ pc = "locust"
    /\ IF "locustfile" \notin files
       THEN /\ ToFinally("sys_exit")
            /\ failed' = TRUE
            /\ UNCHANGED issued
       ELSE \E started \in BOOLEAN :
            /\ issued' = Append(issued, Cmd("locust", 0, "direct",
                                          IF started THEN "ok" ELSE "oserror",
                                          IF started THEN "process" ELSE "raise"))
            /\ failed' = (failed \/ ~started)
            /\ IF started
               THEN pc' = "locust_wait" /\ UNCHANGED <<pending_exit, ramp, idx>>
               ELSE ToFinally("none")     \* OSError from Popen
    /\ UNCHANGED <<end_time_unix, end_assignments, times_file, exit_status>>
    /\ DriverUnchanged /\ ExportUnchanged

\* locust_process.wait() returns when the load generator exits
LocustWait ==
    /\ driver = "hpa"
    /\ pc = "locust_wait"
    /\ ToFinally("none")
    /\ UNCHANGED <<issued, failed, end_time_unix, end_assignments, times_file, exit_status>>
    /\ DriverUnchanged /\ ExportUnchanged

\* finally: end time and the times file
RecordTimes ==
    /\ driver = "hpa"
    /\ pc = "finally"
    /\ \E t \in EndInstants(start_time_unix) :
        /\ end_time_unix' = Some(t)
        /\ times_file' = WriteTimesRecord(times_file, start_time_unix, t)
    /\ end_assignments' = end_assignments + 1
    /\ pc' = "cleanup"
    /\ idx' = 1
    /\ UNCHANGED <<ramp, issued, failed, pending_exit, exit_status>>
    /\ DriverUnchanged /\ ExportUnchanged

\* Cleanup: one kubectl delete (can_fail=True) per step
Cleanup ==
    /\ driver = "hpa"
    /\ pc = "cleanup"
    /\ \E outcome \in Outcomes :
        /\ issued' = Append(issued, Cmd("delete", HpaDeletes[idx], "best_effort", outcome,
                                      run_kubectl_command_hpa(outcome, TRUE)))
        /\ IF run_kubectl_command_hpa(outcome, TRUE) = "raise"
           THEN pc' = "done" /\ idx' = 0 /\ exit_status' = Some(1)   \* uncaught in finally
           ELSE /\ IF idx < Len(HpaDeletes)
                   THEN pc' = "cleanup" /\ idx' = idx + 1
                   ELSE pc' = "export" /\ idx' = 0
                /\ UNCHANGED exit_status
    /\ UNCHANGED <<ramp, failed, pending_exit, end_time_unix, end_assignments, times_file>>
    /\ DriverUnchanged /\ ExportUnchanged

----------------------------------------------------------------------------
(* Metrics Query Client *)

\* run_experiment.py: the result list on success, [] on any failure
query_prometheus_range(resp) ==
    IF resp.status = "success" /\ Len(resp.result) > 0 THEN resp.result ELSE <<>>

\* run_hpa_experiment.py
query_prometheus_range_hpa(resp) ==
    IF resp.status = "success" THEN resp.result ELSE <<>>

----------------------------------------------------------------------------
(* Sampling-step parsing *)

Digits == <<"0", "1", "2", "3", "4", "5", "6", "7", "8", "9">>

IsDigit(c) == \E i \in DOMAIN Digits : Digits[i] = c

DigitVal(c) == (CHOOSE i \in DOMAIN Digits : Digits[i] = c) - 1

RECURSIVE DigitsVal(_)
DigitsVal(cs) ==
    IF cs = <<>> THEN 0
    ELSE 10 * DigitsVal(SubSeq(cs, 1, Len(cs) - 1)) + DigitVal(cs[Len(cs)])

\* int(text): an optional sign and at least one digit; Nothing stands for ValueError
PyIntStr(cs) ==
    LET signed == cs # <<>> /\ cs[1] \in {"-", "+"}
        body == IF signed THEN Tail(cs) ELSE cs
    IN IF body = <<>> \/ \E i \in DOMAIN body : ~IsDigit(body[i]) THEN Nothing
       ELSE IF signed /\ cs[1] = "-" THEN Some(0 - DigitsVal(body))
       ELSE Some(DigitsVal(body))

EndsWith(cs, c) == cs # <<>> /\ cs[Len(cs)] = c

ButLast(cs) == SubSeq(cs, 1, Len(cs) - 1)

\* text.rstrip('sm')
RECURSIVE RStripSM(_)
RStripSM(cs) ==
    IF cs # <<>> /\ cs[Len(cs)] \in {"s", "m"} THEN RStripSM(ButLast(cs)) ELSE cs

DefaultStepSeconds == 15

\* run_experiment.py: step_seconds from args.sampling_interval
StepSecondsScale(interval) ==
    LET n == PyIntStr(ButLast(interval))
    IN IF EndsWith(interval, "s")
       THEN (IF n = Nothing THEN DefaultStepSeconds ELSE n[1])
       ELSE IF EndsWith(interval, "m")
       THEN (IF n = Nothing THEN DefaultStepSeconds ELSE n[1] * 60)
       ELSE DefaultStepSeconds

\* run_hpa_experiment.py: step_seconds from args.sampling_interval
StepSecondsHpa(interval) ==
    LET n == PyIntStr(RStripSM(interval))
    IN IF n = Nothing THEN DefaultStepSeconds
       ELSE n[1] * (IF EndsWith(interval, "m") THEN 60 ELSE 1)

----------------------------------------------------------------------------
(* Series Aligner: building metrics_by_ts *)

NodeTypeLabel == "label_node_kubernetes_io_instance_type"

\* metrics_by_ts[ts_int][field] = val_str, creating the inner dict when missing
AddSample(m, ts, field, val) ==
    LET old == IF ts \in DOMAIN m THEN m[ts] ELSE EmptyDict
        new == [k \in DOMAIN old \cup {field} |-> IF k = field THEN val ELSE old[k]]
    IN [t \in DOMAIN m \cup {ts} |-> IF t = ts THEN new ELSE m[t]]

\* for ts_float, val_str in values: ... with ts_int = int(float(ts_float))
RECURSIVE AddValues(_, _, _)
AddValues(m, values, field) ==
    IF values = <<>> THEN m
    ELSE AddValues(AddSample(m, PyInt(values[1][1]), field, values[1][2]), Tail(values), field)

\* (mutation) every series of a fixed-metric query is read
RECURSIVE process_series_all(_, _, _)
process_series_all(m, data, metric_name) ==
    IF data = <<>> THEN m
    ELSE process_series_all(AddValues(m, data[1].values, metric_name), Tail(data),
                            metric_name)

\* only the first series of a fixed-metric query is read
process_series(m, data, metric_name) ==
    IF Len(data) > 0 THEN AddValues(m, data[1].values, metric_name) ELSE m

\* run_experiment.py: the node series loop; a series without the label is skipped
RECURSIVE NodeSeriesScale(_, _)
NodeSeriesScale(acc, nodes) ==
    IF nodes = <<>> THEN acc
    ELSE LET node_type == Get(nodes[1].metric, NodeTypeLabel, None)
         IN IF node_type = None \/ node_type = ""
            THEN NodeSeriesScale(acc, Tail(nodes))
            ELSE NodeSeriesScale(
                   [m |-> AddValues(acc.m, nodes[1].values, node_type),
                    node_types |-> acc.node_types \cup {node_type}],
                   Tail(nodes))

\* run_hpa_experiment.py: the node series loop; a missing label reads "unknown_node"
RECURSIVE NodeSeriesHpa(_, _)
NodeSeriesHpa(acc, nodes) ==
    IF nodes = <<>> THEN acc
    ELSE LET node_type == Get(nodes[1].metric, NodeTypeLabel, "unknown_node")
         IN NodeSeriesHpa(
              [m |-> AddValues(acc.m, nodes[1].values, node_type),
               node_types |-> acc.node_types \cup {node_type}],
              Tail(nodes))

\* the two drivers' metrics_by_ts and node_types after all queries are processed
MetricsScale(p) ==
    NodeSeriesScale(
      [m |-> process_series(EmptyDict, query_prometheus_range(p.spec_replicas),
                            "deployment_spec_replicas"),
       node_types |-> {}],
      query_prometheus_range(p.nodes))

MetricsHpa(p) ==
    LET m1 == process_series(EmptyDict, query_prometheus_range_hpa(p.spec_replicas),
                             "deployment_spec_replicas")
        m2 == process_series(m1, query_prometheus_range_hpa(p.ready_replicas),
                             "deployment_ready_replicas")
        m3 == process_series(m2, query_prometheus_range_hpa(p.hpa_replicas),
                             "hpa_current_replicas")
    IN NodeSeriesHpa([m |-> m3, node_types |-> {}], query_prometheus_range_hpa(p.nodes))

\* sorted(list(node_types)): the label values of the model, in lexicographic order
LabelOrder == <<"", "a", "b", "unknown_node">>

LabelRank(l) == CHOOSE i \in DOMAIN LabelOrder : LabelOrder[i] = l

RECURSIVE SortedLabels(_)
SortedLabels(S) ==
    IF S = {} THEN <<>>
    ELSE LET m == CHOOSE x \in S : \A y \in S : LabelRank(x) <= LabelRank(y)
         IN <<m>> \o SortedLabels(S \ {m})

----------------------------------------------------------------------------
(* Series Aligner: the grid pass, and the Exporter *)

\* min(available_timestamps, key=lambda ts: abs(ts - t)): the first minimum wins
RECURSIVE MinScan(_, _, _)
MinScan(best, rest, t) ==
    IF rest = <<>> THEN best
    ELSE MinScan(IF Abs(rest[1] - t) < Abs(best - t) THEN rest[1] ELSE best, Tail(rest), t)

\* (mutation) of equidistant timestamps the last one wins
RECURSIVE MinScanLast(_, _, _)
MinScanLast(best, rest, t) ==
    IF rest = <<>> THEN best
    ELSE MinScanLast(IF Abs(rest[1] - t) <= Abs(best - t) THEN rest[1] ELSE best,
                     Tail(rest), t)

ClosestTsLastWins(available_timestamps, t) ==
    IF available_timestamps = <<>> THEN Nothing
    ELSE Some(MinScanLast(available_timestamps[1], Tail(available_timestamps), t))

\* closest_ts for grid timestamp t (default=None when nothing is available)
ClosestTs(available_timestamps, t) ==
    IF available_timestamps = <<>> THEN Nothing
    ELSE Some(MinScan(available_timestamps[1], Tail(available_timestamps), t))

\* run_experiment.py: the data used for the row at t
DataForRowScale(m, closest_ts, t, step_seconds) ==
    IF closest_ts # Nothing /\ Abs(closest_ts[1] - t) < step_seconds
    THEN Get(m, closest_ts[1], EmptyDict)
    ELSE EmptyDict

\* (mutation) a sample at distance exactly step_seconds is still used
DataForRowHpaInclusive(m, closest_ts, t, step_seconds) ==
    IF closest_ts # Nothing /\ closest_ts[1] # 0 /\ Abs(closest_ts[1] - t) <= step_seconds
    THEN Get(m, closest_ts[1], EmptyDict)
    ELSE EmptyDict

\* run_hpa_experiment.py: the data used for the row at t (closest_ts must be truthy)
DataForRowHpa(m, closest_ts, t, step_seconds) ==
    IF closest_ts # Nothing /\ closest_ts[1] # 0 /\ Abs(closest_ts[1] - t) < step_seconds
    THEN Get(m, closest_ts[1], EmptyDict)
    ELSE EmptyDict

\* what csv.DictWriter writes for a value: None becomes the empty string
CsvCell(v) == IF v = None THEN "" ELSE v

FixedFieldsScale == <<"deployment_spec_replicas">>

FixedFieldsHpa == <<"deployment_spec_replicas", "deployment_ready_replicas",
                    "hpa_current_replicas">>

TimeColumns == <<"timestamp_iso", "timestamp_unix">>

\* (mutation) each field is taken from the timestamp nearest to t among the
\* timestamps that carry that field
RowScalePerField(m, t, step_seconds, available_timestamps, sorted_node_types) ==
    LET fieldnames == TimeColumns \o FixedFieldsScale \o sorted_node_types
        TimestampsOf(f) == SelectSeq(available_timestamps, LAMBDA x : f \in DOMAIN m[x])
        DataOf(f) == DataForRowScale(m, ClosestTs(TimestampsOf(f), t), t, step_seconds)
    IN [f \in Range(fieldnames) |->
          IF f = "timestamp_iso" THEN IsoFormat(t)
          ELSE IF f = "timestamp_unix" THEN t
          ELSE IF f \in Range(sorted_node_types) THEN CsvCell(Get(DataOf(f), f, "0"))
          ELSE CsvCell(Get(DataOf(f), f, None))]

\* run_experiment.py: row_to_write as it lands in the file
RowScale(m, t, step_seconds, available_timestamps, sorted_node_types) ==
    LET data_for_row == DataForRowScale(m, ClosestTs(available_timestamps, t), t, step_seconds)
        fieldnames == TimeColumns \o FixedFieldsScale \o sorted_node_types
    IN [f \in Range(fieldnames) |->
          IF f = "timestamp_iso" THEN IsoFormat(t)
          ELSE IF f = "timestamp_unix" THEN t
          ELSE IF f \in Range(sorted_node_types) THEN CsvCell(Get(data_for_row, f, "0"))
          ELSE CsvCell(Get(data_for_row, f, None))]

\* run_hpa_experiment.py: row_to_write as it lands in the file
RowHpa(m, t, step_seconds, available_timestamps, sorted_node_types) ==
    LET data_row == DataForRowHpa(m, ClosestTs(available_timestamps, t), t, step_seconds)
        fieldnames == TimeColumns \o FixedFieldsHpa \o sorted_node_types
    IN [f \in Range(fieldnames) |->
          IF f = "timestamp_iso" THEN IsoFormat(t)
          ELSE IF f = "timestamp_unix" THEN t
          ELSE CsvCell(Get(data_row, f, "0"))]

\* (mutation) the grid stops before int(end)
GridExclusive(start, end, step_seconds) == PyRange(PyInt(start), PyInt(end), step_seconds)

\* range(int(start), int(end) + 1, step_seconds)
Grid(start, end, step_seconds) == PyRange(PyInt(start), PyInt(end) + 1, step_seconds)

\* the value of the last KEY= line of the times file, dflt when there is none
ReadKey(contents, k, dflt) ==
    LET I == {i \in DOMAIN contents : contents[i].key = k}
    IN IF I = {} THEN dflt
       ELSE contents[CHOOSE i \in I : \A j \in I : j <= i].value

\* run_experiment.py: the query window read back from the times file; a parse
\* error keeps the script's own instants for whatever was not yet assigned
QueryWindow(contents, start, end) ==
    LET fs == ParseFloat(ReadKey(contents, "START_TIME_UNIX", FormatFloat(start)))
        fe == ParseFloat(ReadKey(contents, "END_TIME_UNIX", FormatFloat(end)))
    IN IF fs = Nothing THEN [start |-> start, end |-> end]
       ELSE IF fe = Nothing THEN [start |-> fs[1], end |-> end]
       ELSE [start |-> fs[1], end |-> fe[1]]

\* 5. Generate CSV from Prometheus metrics (run_experiment.py)
\* (mutation) the export is written even when no sample was collected
NoMetricDataNever(m) == FALSE

\* "if not metrics_by_ts": no sample of any query was collected
NoMetricData(m) == DOMAIN m = {}

ExportScale ==
    /\ driver = "scale"
    /\ pc = "export"
    /\ export_reached' = TRUE
    /\ LET w == QueryWindow(times_file, start_time_unix, end_time_unix[1])
           acc == MetricsScale(prom)
           step_seconds == StepSecondsScale(args.sampling_interval)
           sorted_node_types == SortedLabels(acc.node_types)
           available_timestamps == Sorted(DOMAIN acc.m)
           grid == IF step_seconds > 0 THEN Grid(w.start, w.end, step_seconds) ELSE <<>>
       IN IF NoMetricData(acc.m)
          THEN UNCHANGED <<csv_file, closest_log>>
          ELSE /\ csv_file' = Some(
                    [header |-> TimeColumns \o FixedFieldsScale \o sorted_node_types,
                     rows |-> [i \in DOMAIN grid |->
                                 RowScale(acc.m, grid[i], step_seconds,
                                          available_timestamps, sorted_node_types)]])
               /\ closest_log' = [i \in DOMAIN grid |->
                                    ClosestTs(available_timestamps, grid[i])]
    /\ pc' = "done"
    /\ exit_status' = Some(0)
    /\ UNCHANGED <<ramp, idx, issued, failed, pending_exit, end_time_unix,
                   end_assignments, times_file>>
    /\ DriverUnchanged

\* Metrics Processing (run_hpa_experiment.py, still inside finally); range() with
\* a zero step raises ValueError after the header is written
ExportHpa ==
    /\ driver = "hpa"
    /\ pc = "export"
    /\ export_reached' = TRUE
    /\ LET acc == MetricsHpa(prom)
           step_seconds == StepSecondsHpa(args.sampling_interval)
           sorted_node_types == SortedLabels(acc.node_types)
           available_timestamps == Sorted(DOMAIN acc.m)
           grid == Grid(start_time_unix, end_time_unix[1], step_seconds)
       IN IF NoMetricData(acc.m)
          THEN /\ UNCHANGED <<csv_file, closest_log, pending_exit>>
               /\ exit_status' = Some(IF pending_exit = "sys_exit" THEN 1 ELSE 0)
          ELSE /\ csv_file' = Some(
                    [header |-> TimeColumns \o FixedFieldsHpa \o sorted_node_types,
                     rows |-> [i \in DOMAIN grid |->
                                 RowHpa(acc.m, grid[i], step_seconds,
                                        available_timestamps, sorted_node_types)]])
               /\ closest_log' = [i \in DOMAIN grid |->
                                    ClosestTs(available_timestamps, grid[i])]
               /\ pending_exit' = IF step_seconds = 0 THEN "value_error" ELSE pending_exit
               /\ exit_status' = Some(IF step_seconds = 0 \/ pending_exit = "sys_exit"
                                      THEN 1 ELSE 0)
    /\ pc' = "done"
    /\ UNCHANGED <<ramp, idx, issued, failed, end_time_unix,
                   end_assignments, times_file>>
    /\ DriverUnchanged

----------------------------------------------------------------------------
(* The environment: command lines, files on disk, Prometheus answers *)

Resp(result) == [status |-> "success", result |-> result]

Series(metric, values) == [metric |-> metric, values |-> values]

NodeLabel(l) == [k \in {NodeTypeLabel} |-> l]

\* a series' samples at the seconds of T, ascending, the i-th carrying vals[i]
ValuesAt(T, half, vals) ==
    LET ss == Sorted(T) IN [i \in DOMAIN ss |-> <<Float(ss[i], half), vals[i]>>]

\* a query answer holding one series with samples at T, or no series when T is empty
OneSeries(metric, T, half, vals) ==
    Resp(IF T = {} THEN <<>> ELSE <<Series(metric, ValuesAt(T, half, vals))>>)

ReplicaVals == [i \in 1 .. MaxSamples |-> IF i % 2 = 1 THEN "2" ELSE "3"]

OtherVals == [i \in 1 .. MaxSamples |-> "7"]

Proms(specR, readyR, nodesR, hpaR) ==
    [spec_replicas |-> specR, ready_replicas |-> readyR, nodes |-> nodesR,
     hpa_replicas |-> hpaR]

Interval1s == <<"1", "s">>

Interval2s == <<"2", "s">>

Interval3s == <<"3", "s">>

Interval5s == <<"5", "s">>

Interval1m == <<"1", "m">>

Interval0s == <<"0", "s">>

IntervalNeg1s == <<"-", "1", "s">>

\* --sampling_interval values outside "<int>s" / "<int>m": no unit, an unknown
\* unit, a repeated unit letter, a number that is not an integer
IntervalNoUnit == <<"2">>

IntervalHour == <<"1", "h">>

IntervalRepeatedUnit == <<"1", "s", "s">>

IntervalFraction == <<"1", ".", "5", "s">>

MalformedIntervals == {IntervalNoUnit, IntervalHour, IntervalRepeatedUnit, IntervalFraction}

Drivers == {"scale", "hpa"}

StartInstants == {Float(Epoch, h) : h \in BOOLEAN}

\* a times file left by an earlier run with the same experiment name
OldTimesFile ==
    <<Line("START_TIME_UNIX", FormatFloat(Float(Epoch - 1, FALSE))),
      Line("END_TIME_UNIX", FormatFloat(Float(Epoch - 1, TRUE)))>>

ArgsOf(drv) ==
    IF drv = "scale"
    THEN [max_replicas : 0 .. MaxMaxReplicas, step_size : 1 .. MaxStepSize,
          sampling_interval : {Interval1s}]
    ELSE [sampling_interval : {Interval1s}]

FilesOf(drv) ==
    IF drv = "scale" THEN SUBSET {"deployment"}
    ELSE SUBSET {"deployment", "service", "hpa", "locustfile"}

\* Prometheus answers of the full runs: nothing at all, an unreachable backend,
\* or one desired-replica sample at the start second
RunProms ==
    {Proms(Resp(<<>>), Resp(<<>>), Resp(<<>>), Resp(<<>>)),
     Proms([status |-> "unreachable", result |-> <<>>], Resp(<<>>), Resp(<<>>), Resp(<<>>)),
     Proms(OneSeries(EmptyDict, {Epoch}, FALSE, ReplicaVals), Resp(<<>>), Resp(<<>>),
           Resp(<<>>))}

\* the state when main() starts its experiment: argparse done, start instant taken
Init ==
    /\ driver \in Drivers
    /\ args \in ArgsOf(driver)
    /\ files \in FilesOf(driver)
    /\ prom \in RunProms
    /\ pc = IF driver = "scale" THEN "record_start" ELSE "apply"
    /\ ramp = "none"
    /\ idx = IF driver = "scale" THEN 0 ELSE 1
    /\ issued = <<>>
    /\ failed = FALSE
    /\ pending_exit = "none"
    /\ start_time_unix \in StartInstants
    /\ end_time_unix = Nothing
    /\ end_assignments = 0
    /\ times_file \in {<<>>, OldTimesFile}
    /\ prior_times_file = times_file
    /\ csv_file = Nothing
    /\ closest_log = <<>>
    /\ export_reached = FALSE
    /\ exit_status = Nothing

Next ==
    \/ RecordStart
    \/ ApplyDeployment
    \/ WaitReady
    \/ ScaleTo
    \/ ScaleWait
    \/ RecordEnd
    \/ ExportScale
    \/ ApplyManifest
    \/ PollServiceIp
    \/ LaunchLocust
    \/ LocustWait
    \/ RecordTimes
    \/ Cleanup
    \/ ExportHpa

Spec == Init /\ [][Next]_vars

----------------------------------------------------------------------------
(* The export step on its own: the aligner applied to bounded inputs.  The      *)
(* initial states are main() arriving at the metrics export with a recorded     *)
(* window and the answers Prometheus is about to give.                          *)

SampleSeconds == (Epoch - 1) .. (Epoch + MaxWindow + 1)

SampleSets(n) == {T \in SUBSET SampleSeconds : Cardinality(T) <= n}

\* desired-replica samples at TA; one more sample set TB on a node class "a"
\* or (load-test driver only) on the ready-replica metric
AlignerProms(drv) ==
    {Proms(OneSeries(EmptyDict, TA, half, ReplicaVals),
           IF dest = "ready" THEN OneSeries(EmptyDict, TB, half, OtherVals) ELSE Resp(<<>>),
           IF dest = "nodes" THEN OneSeries(NodeLabel("a"), TB, half, OtherVals)
                             ELSE Resp(<<>>),
           Resp(<<>>)) :
        TA \in SampleSets(MaxSamples), TB \in SampleSets(1), half \in BOOLEAN,
        dest \in IF drv = "hpa" THEN {"nodes", "ready"} ELSE {"nodes"}}

\* answers of a query that degrade to the empty series list: no series, an
\* error status, an unreachable backend
DegradedResps ==
    {Resp(<<>>), [status |-> "error", result |-> <<>>],
     [status |-> "unreachable", result |-> <<>>]}

DegradedProms == {Proms(r1, r2, r1, r2) : r1, r2 \in DegradedResps}

\* --sampling_interval values: positive steps, a step longer than the window,
\* a zero step and a negative step
AlignerIntervals ==
    {Interval1s, Interval2s, Interval3s, Interval1m, Interval0s, IntervalNeg1s}

AlignerEnds(t0) ==
    {x \in {Float(n, h) : n \in t0.s .. t0.s + MaxWindow, h \in BOOLEAN} : FloatLE(t0, x)}

\* the end-to-end scenario of the specification: window [1000, 1030], step 5s,
\* only a desired-replica series [(1000,"2"),(1015,"3")]
ScenarioStart == Float(1000, FALSE)

ScenarioEnd == Float(1030, FALSE)

ScenarioProm ==
    Proms(Resp(<<Series(EmptyDict, <<<<Float(1000, FALSE), "2">>, <<Float(1015, FALSE), "3">>>>)>>),
          Resp(<<>>), Resp(<<>>), Resp(<<>>))

\* one sample at second sec with value val
OneSample(sec, val) == <<<<Float(sec, FALSE), val>>>>

\* node-inventory series: two of class "a" (a duplicate label), one of class
\* "b", and one whose label set lacks the instance-type label
NodeSeriesKinds ==
    {Series(NodeLabel("a"), OneSample(Epoch, "7")),
     Series(NodeLabel("a"), OneSample(Epoch + 1, "6")),
     Series(NodeLabel("b"), OneSample(Epoch + 1, "5")),
     Series([k \in {"node"} |-> "n1"], OneSample(Epoch + 2, "4"))}

\* the node-inventory answers: up to MaxSeries series, in any order and with
\* any multiplicity
NodeAnswers == UNION {[1 .. n -> NodeSeriesKinds] : n \in 0 .. MaxSeries}

\* answers of a fixed-metric query: no series, one series, or two series in
\* either order; the series carry different values at different seconds
FixedAnswers(v1, v2) ==
    {Resp(<<>>),
     Resp(<<Series(EmptyDict, OneSample(Epoch, v1))>>),
     Resp(<<Series(EmptyDict, OneSample(Epoch, v1)),
            Series(EmptyDict, OneSample(Epoch + 1, v2))>>),
     Resp(<<Series(EmptyDict, OneSample(Epoch + 1, v2)),
            Series(EmptyDict, OneSample(Epoch, v1))>>)}

\* answers with several series per query, over the longest window at step 1s
SeriesInputs(drv) ==
    {[start |-> Float(Epoch, FALSE), end |-> Float(Epoch + MaxWindow, FALSE),
      sampling_interval |-> Interval1s,
      prom |-> Proms(sp, rd, Resp(nd), Resp(<<>>))] :
        sp \in FixedAnswers("2", "9"),
        rd \in IF drv = "hpa" THEN FixedAnswers("3", "8") ELSE {Resp(<<>>)},
        nd \in NodeAnswers}

\* the answers used with the malformed intervals: desired-replica samples at
\* both ends of the longest window
MalformedProm ==
    Proms(OneSeries(EmptyDict, {Epoch, Epoch + MaxWindow}, FALSE, ReplicaVals),
          Resp(<<>>), Resp(<<>>), Resp(<<>>))

AlignerInputs(drv) ==
    {[start |-> t0, end |-> t1, sampling_interval |-> iv, prom |-> p] :
        t0 \in StartInstants, t1 \in AlignerEnds(Float(Epoch, FALSE)),
        iv \in AlignerIntervals, p \in AlignerProms(drv) \cup DegradedProms}
    \cup {[start |-> ScenarioStart, end |-> ScenarioEnd, sampling_interval |-> Interval5s,
           prom |-> ScenarioProm]}
    \cup {[start |-> t0, end |-> t1, sampling_interval |-> iv, prom |-> MalformedProm] :
            t0 \in StartInstants, t1 \in AlignerEnds(Float(Epoch, FALSE)),
            iv \in MalformedIntervals}

IsScenario ==
    /\ start_time_unix = ScenarioStart
    /\ end_time_unix = Some(ScenarioEnd)
    /\ args.sampling_interval = Interval5s
    /\ prom = ScenarioProm

\* the export step of a run whose window, interval and answers are inp
ExportInput(inp) ==
    /\ FloatLE(inp.start, inp.end)
    /\ args = IF driver = "scale"
              THEN [max_replicas |-> 2, step_size |-> 1,
                    sampling_interval |-> inp.sampling_interval]
              ELSE [sampling_interval |-> inp.sampling_interval]
    /\ prom = inp.prom
    /\ start_time_unix = inp.start
    /\ end_time_unix = Some(inp.end)
    /\ times_file = IF driver = "scale"
                    THEN AppendEndRecord(WriteStartRecord(<<>>, inp.start), inp.end)
                    ELSE WriteTimesRecord(<<>>, inp.start, inp.end)

InitExport ==
    /\ driver \in Drivers
    /\ \/ \E inp \in AlignerInputs(driver) : ExportInput(inp)
       \/ \E inp \in SeriesInputs(driver) : ExportInput(inp)
    /\ files = UNION FilesOf(driver)
    /\ pc = "export"
    /\ ramp = "none"
    /\ idx = 0
    /\ issued = <<>>
    /\ failed = FALSE
    /\ pending_exit = "none"
    /\ end_assignments = 1
    /\ prior_times_file = <<>>
    /\ csv_file = Nothing
    /\ closest_log = <<>>
    /\ export_reached = FALSE
    /\ exit_status = Nothing

NextExport ==
    \/ ExportScale
    \/ ExportHpa

ExportSpec == InitExport /\ [][NextExport]_vars

----------------------------------------------------------------------------
(* Vocabulary of the properties *)

Done == pc = "done"

\* the scale targets issued so far, in order
Targets == [i \in DOMAIN ScaleTargets |-> ScaleTargets[i].arg]

\* the observed samples of the run, keyed by timestamp then field
Observed == IF driver = "scale" THEN MetricsScale(prom).m ELSE MetricsHpa(prom).m

\* the observed timestamps of one field
FieldTimestamps(f) == {ts \in DOMAIN Observed : f \in DOMAIN Observed[ts]}

\* the sampling step S in seconds
StepS ==
    IF driver = "scale" THEN StepSecondsScale(args.sampling_interval)
    ELSE StepSecondsHpa(args.sampling_interval)

Exported == csv_file # Nothing

Rows == csv_file[1].rows

MetricFields == Range(csv_file[1].header) \ Range(TimeColumns)

\* the timestamps of field f nearest to t (one, or two at a tie)
NearestOf(f, t) ==
    {ts \in FieldTimestamps(f) : \A o \in FieldTimestamps(f) : Abs(ts - t) <= Abs(o - t)}

----------------------------------------------------------------------------
(* C1: once a forward-phase step has failed, no apply, rollout wait, scale or   *)
(* load-generator launch is issued any more in that run.                        *)
C1_NoForwardProgressAfterFailure == [][failed => ForwardCount' = ForwardCount]_vars

C1_Witness_FailedMidRun == Done /\ failed /\ ForwardCount >= 3

(* C2: on every exit path the end of the window is recorded, cleanup is         *)
(* attempted (by the driver that has a cleanup phase) and the metrics export    *)
(* is reached.                                                                  *)
C2_EveryExitPathRecordsCleansExports ==
    Done => /\ end_time_unix # Nothing
            /\ export_reached
            /\ (driver = "hpa" => \E i \in DOMAIN issued : issued[i].op = "delete")

(* C3: after any run the times file holds exactly one START_TIME_UNIX and one   *)
(* END_TIME_UNIX line, and the end instant was assigned exactly once.           *)
C3_OneStartOneEnd ==
    /\ end_assignments <= 1
    /\ Done => /\ CountKey(times_file, "START_TIME_UNIX") = 1
               /\ CountKey(times_file, "END_TIME_UNIX") = 1
               /\ end_assignments = 1
               /\ end_time_unix # Nothing
               /\ ReadKey(times_file, "END_TIME_UNIX", Nothing) = FormatFloat(end_time_unix[1])

C3_Witness_RaisedPartWay == Done /\ failed /\ Len(Targets) >= 1

(* C4: alignment is per field: whenever a field's own nearest sample is closer  *)
(* than S to the grid timestamp, the exported value of the field is that        *)
(* sample's value, wherever the samples of the other fields lie.                *)
C4_PerFieldAlignment ==
    (Done /\ Exported) =>
        \A i \in DOMAIN Rows : \A f \in MetricFields :
            LET t == Rows[i]["timestamp_unix"]
            IN \A ts \in NearestOf(f, t) :
                  (Abs(ts - t) < StepS /\ \A o \in NearestOf(f, t) : ts <= o)
                      => Rows[i][f] = Observed[ts][f]

(* C5: a sample is used only at distance strictly less than S; a field whose    *)
(* nearest sample is at distance >= S is written as the default '0'.            *)
C5_StalenessCutoff ==
    (Done /\ Exported) =>
        \A i \in DOMAIN Rows : \A f \in MetricFields :
            LET t == Rows[i]["timestamp_unix"]
            IN /\ Rows[i][f] \notin {"0", ""} =>
                    \E ts \in FieldTimestamps(f) :
                        Abs(ts - t) < StepS /\ Observed[ts][f] = Rows[i][f]
               /\ (\A ts \in FieldTimestamps(f) : Abs(ts - t) >= StepS) => Rows[i][f] = "0"

(* C6: the selected observed timestamp is at minimum distance from the grid     *)
(* timestamp, and of two equidistant ones the earlier is selected.              *)
C6_NearestEarlierOnTie ==
    (Done /\ Exported) =>
        /\ Len(closest_log) = Len(Rows)
        /\ \A i \in DOMAIN Rows :
            LET t == Rows[i]["timestamp_unix"]
                c == closest_log[i]
            IN /\ c # Nothing
               /\ c[1] \in DOMAIN Observed
               /\ \A o \in DOMAIN Observed :
                     \/ Abs(c[1] - t) < Abs(o - t)
                     \/ (Abs(c[1] - t) = Abs(o - t) /\ c[1] <= o)

C6_Witness_Tie ==
    /\ Done /\ Exported
    /\ \E i \in DOMAIN Rows : \E o \in DOMAIN Observed :
          LET t == Rows[i]["timestamp_unix"]
          IN /\ closest_log[i] # Nothing
             /\ o > closest_log[i][1]
             /\ o - t = t - closest_log[i][1]

(* C7: when a sample was retrieved and S > 0, the export has exactly one row    *)
(* per timestamp floor(start), floor(start)+S, ... up to floor(end), ascending. *)
C7_OneRowPerGridTimestamp ==
    (Done /\ DOMAIN Observed # {} /\ StepS > 0) =>
        /\ Exported
        /\ Len(Rows) = ((PyInt(end_time_unix[1]) - PyInt(start_time_unix)) \div StepS) + 1
        /\ \A i \in DOMAIN Rows :
              Rows[i]["timestamp_unix"] = PyInt(start_time_unix) + (i - 1) * StepS

C7_Witness_SeveralRows ==
    /\ Done /\ Exported /\ Len(Rows) >= 3
    /\ start_time_unix.half /\ end_time_unix[1].half
    /\ (PyInt(end_time_unix[1]) - PyInt(start_time_unix)) % StepS = 0

ScenarioGrid == <<1000, 1005, 1010, 1015, 1020, 1025, 1030>>

ScenarioShape ==
    /\ Exported
    /\ Len(Rows) = Len(ScenarioGrid)
    /\ \A i \in DOMAIN Rows :
          /\ Rows[i]["timestamp_unix"] = ScenarioGrid[i]
          /\ \A f \in MetricFields \ {"deployment_spec_replicas"} : Rows[i][f] = "0"

(* C8 as stated: in the scenario the seven desired-replica values are           *)
(* 2,2,2,3,3,3,3 and every other field is at the default.                       *)
C8_ScenarioAsStated ==
    (Done /\ IsScenario) =>
        /\ ScenarioShape
        /\ [i \in DOMAIN Rows |-> Rows[i]["deployment_spec_replicas"]]
              = <<"2", "2", "2", "3", "3", "3", "3">>

\* how each driver writes a desired-replica value it has no sample for
AbsentReplicas == IF driver = "scale" THEN "" ELSE "0"

(* C8 amended: in the scenario the export has 7 rows at 1000,1005,...,1030;     *)
(* the desired-replica value is "2" at 1000 and "3" at 1015 and absent at the   *)
(* other five timestamps, whose nearest sample is at distance >= 5 ('0' in the  *)
(* load-test driver, an empty cell in the scaling driver); other fields '0'.    *)
C8_ScenarioAmended ==
    (Done /\ IsScenario) =>
        /\ ScenarioShape
        /\ [i \in DOMAIN Rows |-> Rows[i]["deployment_spec_replicas"]]
              = <<"2", AbsentReplicas, AbsentReplicas, "3",
                  AbsentReplicas, AbsentReplicas, AbsentReplicas>>

C8_Witness_ScenarioExported == Done /\ IsScenario /\ Exported /\ driver = "hpa"

Min(a, b) == IF a <= b THEN a ELSE b

(* C9: for max >= 2 and step >= 1 the targets of a fully successful run start   *)
(* at 2, ascend by step to a peak of exactly max (the last ascending target     *)
(* truncated to max), then descend by step from max-step and end at 2 or 2+step *)
C9_RampPeaksAtMax ==
    (Done /\ ~failed /\ driver = "scale" /\ args.max_replicas >= 2) =>
        /\ Len(Targets) >= 1
        /\ Targets[1] = 2
        /\ \E p \in DOMAIN Targets :
              /\ Targets[p] = args.max_replicas
              /\ \A i \in 1 .. (p - 1) :
                    Targets[i + 1] = Min(Targets[i] + args.step_size, args.max_replicas)
              /\ \A i \in p .. (Len(Targets) - 1) :
                    Targets[i + 1] = Targets[i] - args.step_size
        /\ Targets[Len(Targets)] \in {2, 2 + args.step_size}

(* C10: the scaling ramp never issues two identical consecutive scale targets,  *)
(* the junction between ascent and descent included.                            *)
C10_NoImmediateRepeat ==
    \A i \in 1 .. (Len(Targets) - 1) : Targets[i] # Targets[i + 1]

C10_Witness_JunctionUneven ==
    /\ Done /\ ~failed /\ driver = "scale"
    /\ (args.max_replicas - 2) % args.step_size # 0
    /\ Len(ScaleUpPlan(args)) >= 2
    /\ Len(Targets) = Len(ScaleUpPlan(args)) + Len(ScaleDownPlan(args))
    /\ Len(ScaleDownPlan(args)) >= 1

----------------------------------------------------------------------------
(* Command Executor contract *)

\* the entries of the command log that went through run_kubectl_command
Executed == {i \in DOMAIN issued : issued[i].mode \in {"normal", "best_effort"}}

\* no command of the forward phase was issued after entry i
LastForward(i) == \A j \in DOMAIN issued : j > i => issued[j].op \notin ForwardOps

\* C11: the executor classifies every outcome by the invocation mode: a normal
\* invocation that exits non-zero or times out raises to its caller (the run is
\* marked failed and issues no further forward command), a best-effort
\* invocation that exits non-zero or times out returns None and the run goes on
\* to the export, and a successful invocation returns the captured result in
\* both modes.
C11_ExecutorClassification ==
    \A i \in Executed :
        LET c == issued[i] IN
        /\ c.outcome = "ok" => c.result = "result"
        /\ (c.mode = "normal" /\ c.outcome # "ok") =>
               c.result = "raise" /\ failed /\ LastForward(i)
        /\ (c.mode = "best_effort" /\ c.outcome # "ok") =>
               c.result = None /\ (Done => export_reached)

\* a run in which a normal invocation timed out and, later, a best-effort one
\* timed out and another succeeded
C11_Witness_BothModesFail ==
    /\ Done
    /\ \E i, j, k \in Executed :
        /\ issued[i].mode = "normal" /\ issued[i].outcome = "timeout"
        /\ issued[j].mode = "best_effort" /\ issued[j].outcome = "timeout"
        /\ issued[k].mode = "best_effort" /\ issued[k].outcome = "ok"

----------------------------------------------------------------------------
(* Cleanup *)

\* the kubectl delete commands issued so far, in order
Deletes == SelectSeq(issued, LAMBDA c : c.op = "delete")

DeleteArgs == [i \in DOMAIN Deletes |-> Deletes[i].arg]

\* C12: cleanup failures never escalate: the deletes of the autoscaler, the
\* service and the deployment are attempted in this order whatever the outcome
\* of an earlier delete, so the export of the load-test driver starts only
\* after all three were attempted and every finished run has attempted all
\* three and reached the export.
C12_CleanupNeverEscalates ==
    driver = "hpa" =>
        /\ DeleteArgs = SubSeq(HpaDeletes, 1, Len(Deletes))
        /\ pc = "cleanup" => Len(Deletes) = idx - 1
        /\ (pc = "export" \/ Done) => DeleteArgs = HpaDeletes
        /\ Done => export_reached

\* a finished run whose three deletes all failed, by exit status and by timeout
C12_Witness_AllDeletesFailed ==
    /\ driver = "hpa" /\ Done /\ export_reached
    /\ Len(Deletes) = 3
    /\ \A i \in DOMAIN Deletes : Deletes[i].outcome # "ok"
    /\ Deletes[1].outcome = "timeout"
    /\ Deletes[2].outcome = "nonzero"

----------------------------------------------------------------------------
(* Wait-for-ready *)

\* the positions of the kubectl rollout status commands in the command log
Waits == {i \in DOMAIN issued : issued[i].op = "rollout"}

\* the command a wait belongs to: the apply (target 0) or the scale before it
WaitedFor(i) == issued[i - 1]

\* C13: a wait-for-ready that exceeds its timeout is terminal and not retried:
\* every rollout-status wait directly follows the successful apply or scale
\* command of its own target, so no target is waited for twice, and after a
\* wait that timed out or failed the run is marked failed and issues no
\* further command, in particular no further scaling target.
C13_WaitTimeoutTerminal ==
    driver = "scale" =>
        \A i \in Waits :
            /\ i > 1
            /\ WaitedFor(i).op \in {"apply", "scale"}
            /\ WaitedFor(i).outcome = "ok"
            /\ WaitedFor(i).op = "scale" => WaitedFor(i).arg = issued[i].arg
            /\ WaitedFor(i).op = "apply" => issued[i].arg = 0
            /\ issued[i].outcome # "ok" => (i = Len(issued) /\ failed)

\* a finished run whose wait for the second scaling target timed out while
\* the plan still held further targets
C13_Witness_WaitTimedOutMidRamp ==
    /\ driver = "scale" /\ Done
    /\ Len(ScaleTargets) = 2
    /\ Len(ScaleUpPlan(args)) + Len(ScaleDownPlan(args)) > 2
    /\ issued[Len(issued)].op = "rollout"
    /\ issued[Len(issued)].outcome = "timeout"

----------------------------------------------------------------------------
(* Termination *)

\* The steps the driver completes by itself: file checks, clock reads, file
\* writes, and external calls made with a timeout (run_kubectl_command,
\* requests.get), which return or raise within that timeout.  The two calls
\* made without a timeout are left out: subprocess.run of the address poll
\* and locust_process.wait() return only when the external process does.
TimedStep ==
    \/ RecordStart
    \/ ApplyDeployment
    \/ WaitReady
    \/ ScaleTo
    \/ ScaleWait
    \/ RecordEnd
    \/ ExportScale
    \/ ApplyManifest
    \/ LaunchLocust
    \/ RecordTimes
    \/ Cleanup
    \/ ExportHpa

\* the runs in which every step the driver can complete by itself is taken,
\* and an external process waited for without a timeout may never return
FairSpec == Spec /\ WF_vars(TimedStep)

\* C14: every external call carries a timeout, so every run eventually records
\* the end of the window and terminates, even if an external process never
\* returns on its own.
C14_EveryRunTerminates == <>(Done /\ end_time_unix # Nothing)

----------------------------------------------------------------------------
(* Time record *)

\* the commands that change the cluster or start the load
SideEffectOps == {"apply", "scale", "delete", "locust"}

SideEffectIssued == \E i \in DOMAIN issued : issued[i].op \in SideEffectOps

\* the time record on disk holds the start instant of this run
StartPersisted ==
    ReadKey(times_file, "START_TIME_UNIX", Nothing) = FormatFloat(start_time_unix)

\* C15: the start instant is persisted as soon as it is assigned: in every
\* state in which a side-effecting command has been issued, the time record
\* already holds START_TIME_UNIX of this run.
C15_StartPersistedBeforeCommands == SideEffectIssued => StartPersisted


IsPrefix(a, b) == Len(a) <= Len(b) /\ SubSeq(b, 1, Len(a)) = a

\* C16 (as stated): the time record is append-only: every write leaves the
\* previous contents as a prefix of the new contents, also when a record of
\* the same experiment name exists before the run.
C16_AppendOnly == [][IsPrefix(times_file, times_file')]_vars

\* C16 (amended): the first write of a run replaces whatever record an earlier
\* run of the same experiment name left, so that the record then holds one
\* start instant, that of this run; every later write of the run leaves the
\* previous contents as a prefix of the new contents.
C16_AppendOnlyWithinRun ==
    [][times_file' # times_file =>
          IF times_file = prior_times_file
          THEN /\ StartPersisted'
               /\ CountKey(times_file', "START_TIME_UNIX") = 1
          ELSE IsPrefix(times_file, times_file')]_vars

\* a scaling run that began over the record of an earlier run, replaced it
\* with its start lines and later appended its end lines
C16_Witness_AppendedAfterReplace ==
    /\ driver = "scale"
    /\ prior_times_file = OldTimesFile
    /\ end_time_unix # Nothing
    /\ Len(times_file) = 4
    /\ SubSeq(times_file, 1, 2) = WriteStartRecord(prior_times_file, start_time_unix)
    /\ times_file[4] = Line("END_TIME_UNIX", FormatFloat(end_time_unix[1]))

----------------------------------------------------------------------------
(* Missing resource files *)

\* the files a run of the driver reads: the manifests it applies and, for the
\* load-test driver, locustfile.py
RequiredFiles(drv) ==
    IF drv = "scale" THEN {"deployment"}
    ELSE Range(HpaManifests) \cup {"locustfile"}

MissingFile == RequiredFiles(driver) \ files # {}

\* C17: a missing resource file is fatal before any side effect: whenever a
\* required file is missing, no command has been issued and the time record
\* is as the run found it, and the finished run is a failed one.
C17_MissingFileBeforeSideEffect ==
    MissingFile =>
        /\ issued = <<>>
        /\ times_file = prior_times_file
        /\ Done => failed

----------------------------------------------------------------------------
(* Exit status *)

\* C18: the exit status distinguishes failure: a finished run ends with status
\* zero exactly when no step of it failed.
C18_ExitStatusDistinguishesFailure ==
    Done => (exit_status = Some(0) <=> ~failed)

----------------------------------------------------------------------------
(* Export without metric data *)

\* the queries a driver sends and what its client makes of the answers
QueryLists ==
    IF driver = "scale"
    THEN {query_prometheus_range(prom.spec_replicas), query_prometheus_range(prom.nodes)}
    ELSE {query_prometheus_range_hpa(prom.spec_replicas),
          query_prometheus_range_hpa(prom.ready_replicas),
          query_prometheus_range_hpa(prom.hpa_replicas),
          query_prometheus_range_hpa(prom.nodes)}

AllDegraded == QueryLists = {<<>>}

FixedHeader ==
    TimeColumns \o (IF driver = "scale" THEN FixedFieldsScale ELSE FixedFieldsHpa)

----------------------------------------------------------------------------
(* Grids without points *)

\* C20: a grid with zero points is rejected: when the sampling step is zero or
\* negative, the export neither writes a file that has a header and no rows
\* nor ends in an uncaught ValueError.
C20_ZeroPointGridRejected ==
    (Done /\ export_reached /\ StepS <= 0) =>
        /\ ~(Exported /\ Rows = <<>>)
        /\ pending_exit # "value_error"

----------------------------------------------------------------------------
(* Sampling-step grammar *)

\* an integer literal: an optional minus sign and at least one digit
IsIntLiteral(cs) ==
    LET body == IF cs # <<>> /\ cs[1] = "-" THEN Tail(cs) ELSE cs
    IN body # <<>> /\ \A i \in DOMAIN body : IsDigit(body[i])

\* the recognized grammar: "<int>s" or "<int>m"
WellFormedInterval(cs) ==
    /\ cs # <<>>
    /\ cs[Len(cs)] \in {"s", "m"}
    /\ IsIntLiteral(ButLast(cs))

\* the step a well-formed interval denotes, in seconds
DenotedStep(cs) ==
    LET body == ButLast(cs)
        n == IF body[1] = "-" THEN 0 - DigitsVal(Tail(body)) ELSE DigitsVal(body)
    IN IF cs[Len(cs)] = "m" THEN 60 * n ELSE n

\* C21: sampling-step parsing accepts exactly "<int>s" and "<int>m": a
\* well-formed interval yields the step it denotes, and for any other string
\* the export is rejected, so no file is written with a fallback or guessed
\* step.
C21_StepGrammarExact ==
    (Done /\ export_reached /\ ~NoMetricData(Observed)) =>
        IF WellFormedInterval(args.sampling_interval)
        THEN StepS = DenotedStep(args.sampling_interval)
        ELSE ~Exported

----------------------------------------------------------------------------
(* Defaults of missing values *)

\* row i took a sample of field f: the observed timestamp selected for the
\* row is closer than the step and carries a value of f
AcceptedSample(i, f) ==
    /\ closest_log[i] # Nothing
    /\ Abs(closest_log[i][1] - Rows[i]["timestamp_unix"]) < StepS
    /\ f \in DOMAIN Observed[closest_log[i][1]]

\* C22: every field of every exported row that has no accepted sample is
\* written as the one default '0', never as a blank cell, for the fixed metric
\* columns and the node-class columns alike.
C22_OneDefaultNeverBlank ==
    (Done /\ Exported) =>
        \A i \in DOMAIN Rows : \A f \in MetricFields :
            /\ Rows[i][f] # ""
            /\ ~AcceptedSample(i, f) => Rows[i][f] = "0"

----------------------------------------------------------------------------
(* Node-class columns *)

\* the node-inventory series the query client handed to the export
NodeSeriesReturned ==
    IF driver = "scale" THEN query_prometheus_range(prom.nodes)
    ELSE query_prometheus_range_hpa(prom.nodes)

Labelled(series) == NodeTypeLabel \in DOMAIN series.metric

\* the distinct values of the instance-type label over the returned series
LabelsSeen ==
    {NodeSeriesReturned[i].metric[NodeTypeLabel] :
        i \in {j \in DOMAIN NodeSeriesReturned : Labelled(NodeSeriesReturned[j])}}

\* the columns of the export after the time and fixed metric columns
NodeColumns == SubSeq(csv_file[1].header, Len(FixedHeader) + 1, Len(csv_file[1].header))

\* C23: the node-class columns of the export are exactly the distinct values
\* of the instance-type label seen across the returned node-inventory series,
\* each once and in lexicographic order, whatever the order and multiplicity
\* of the series.
C23_ColumnDiscovery ==
    (Done /\ Exported) =>
        /\ Range(NodeColumns) = LabelsSeen
        /\ \A i, j \in DOMAIN NodeColumns :
              i < j => LabelRank(NodeColumns[i]) < LabelRank(NodeColumns[j])
        /\ SubSeq(csv_file[1].header, 1, Len(FixedHeader)) = FixedHeader


\* the sample values of the returned node-inventory series that lack the label
UnlabelledValues ==
    UNION {{NodeSeriesReturned[i].values[k][2] : k \in DOMAIN NodeSeriesReturned[i].values} :
            i \in {j \in DOMAIN NodeSeriesReturned : ~Labelled(NodeSeriesReturned[j])}}

\* C24: a node-inventory series whose label set lacks the instance-type label
\* is skipped entirely: every node-class column is a label value of some
\* labelled series, and no cell of any exported row holds a sample of an
\* unlabelled series.
C24_UnlabelledSeriesSkipped ==
    (Done /\ Exported) =>
        /\ Range(NodeColumns) \subseteq LabelsSeen
        /\ \A i \in DOMAIN Rows : \A f \in MetricFields :
              Rows[i][f] \notin UnlabelledValues

----------------------------------------------------------------------------
(* Merged rows *)

\* the observed timestamps at minimum distance from t, over all fields
NearestObserved(t) ==
    {ts \in DOMAIN Observed : \A o \in DOMAIN Observed : Abs(ts - t) <= Abs(o - t)}

\* the cells of row i that hold a value rather than the default or a blank
ValueFields(i) == {f \in MetricFields : Rows[i][f] \notin {"0", ""}}

\* C25: in every exported row all values that are not the default or blank
\* come from one single observed timestamp, a timestamp nearest to the grid
\* point among the sample timestamps of all fields together; a row never
\* combines values of two observed timestamps.
C25_RowFromOneTimestamp ==
    (Done /\ Exported) =>
        \A i \in DOMAIN Rows :
            ValueFields(i) # {} =>
                \E ts \in NearestObserved(Rows[i]["timestamp_unix"]) :
                    \A f \in ValueFields(i) :
                        /\ f \in DOMAIN Observed[ts]
                        /\ Rows[i][f] = Observed[ts][f]

\* a row that holds the value of one field and the default of another field,
\* although the other field has a sample of its own closer than the step
C25_Witness_OtherFieldLeftOut ==
    /\ Done /\ Exported
    /\ \E i \in DOMAIN Rows : \E f, g \in MetricFields :
          /\ f \in ValueFields(i)
          /\ g \notin ValueFields(i)
          /\ \E ts \in FieldTimestamps(g) : Abs(ts - Rows[i]["timestamp_unix"]) < StepS

----------------------------------------------------------------------------
(* Fixed metric fields *)

\* each fixed metric field with the series list its query returned
FixedQueries ==
    IF driver = "scale"
    THEN {<<"deployment_spec_replicas", query_prometheus_range(prom.spec_replicas)>>}
    ELSE {<<"deployment_spec_replicas", query_prometheus_range_hpa(prom.spec_replicas)>>,
          <<"deployment_ready_replicas", query_prometheus_range_hpa(prom.ready_replicas)>>,
          <<"hpa_current_replicas", query_prometheus_range_hpa(prom.hpa_replicas)>>}

\* the samples of the first returned series
FirstSeriesSamples(L) == IF L = <<>> THEN {} ELSE Range(L[1].values)

\* the sample values of the second and later returned series
LaterSeriesValues(L) ==
    UNION {{L[j].values[k][2] : k \in DOMAIN L[j].values} : j \in 2 .. Len(L)}

\* C26: for each fixed metric field only the first series its query returned
\* contributes: a cell of the field that is not the default or blank holds a
\* sample of the first series taken closer than the step, and never a sample
\* of a second or later series.
C26_FirstSeriesOnly ==
    (Done /\ Exported) =>
        \A q \in FixedQueries : \A i \in DOMAIN Rows :
            Rows[i][q[1]] \notin {"0", ""} =>
                /\ \E smp \in FirstSeriesSamples(q[2]) :
                      /\ smp[2] = Rows[i][q[1]]
                      /\ Abs(PyInt(smp[1]) - Rows[i]["timestamp_unix"]) < StepS
                /\ Rows[i][q[1]] \notin LaterSeriesValues(q[2])

\* an export whose desired-replica query returned two series: one row holds
\* the sample of the first, and the row at the second series' sample holds
\* the default
C26_Witness_SecondSeriesIgnored ==
    /\ Done /\ Exported
    /\ \E q \in FixedQueries :
          /\ Len(q[2]) = 2
          /\ \E i, j \in DOMAIN Rows :
                /\ Rows[i][q[1]] \notin {"0", ""}
                /\ Rows[j][q[1]] \in {"0", ""}
                /\ \E k \in DOMAIN q[2][2].values :
                      PyInt(q[2][2].values[k][1]) = Rows[j]["timestamp_unix"]

----------------------------------------------------------------------------
(* Launch of the load generator *)

Applies == SelectSeq(issued, LAMBDA c : c.op = "apply")

Polls == SelectSeq(issued, LAMBDA c : c.op = "get_service")

Launched == \E i \in DOMAIN issued : issued[i].op = "locust"

\* C27: in the load-test driver the load generator is launched only after the
\* three manifests were applied successfully, in order, and an address poll
\* among the first 30 returned a non-empty address, every earlier poll having
\* returned none; after 30 empty polls the run is failed and the load
\* generator is never launched.
C27_LaunchOnlyWhenReady ==
    driver = "hpa" =>
        LET applies == Applies
            polls == Polls
        IN /\ Len(polls) <= PollLimit
           /\ Launched =>
                 /\ [i \in DOMAIN applies |-> applies[i].arg] = HpaManifests
                 /\ \A i \in DOMAIN applies : applies[i].outcome = "ok"
                 /\ Len(polls) >= 1
                 /\ polls[Len(polls)].result = "address"
                 /\ \A i \in 1 .. Len(polls) - 1 : polls[i].result = "empty"
                 /\ \A i \in DOMAIN issued :
                       issued[i].op = "locust" => i = Len(applies) + Len(polls) + 1
           /\ (Len(polls) = PollLimit /\ polls[PollLimit].result = "empty") =>
                 (failed /\ ~Launched)

\* a run that obtained the address at the last allowed poll and launched
C27_Witness_AddressAtLastPoll ==
    /\ driver = "hpa" /\ Done
    /\ Launched
    /\ Len(Polls) = PollLimit

====
